---- MODULE Spec2Model ----
(***************************************************************************)
(* Model of Magnum's GL pixel-format translation (Magnum/GL/PixelFormat.cpp)*)
(* and of the Texture<dimensions> wrapper methods (Texture.h).              *)
(*                                                                         *)
(* A 32-bit Magnum::PixelFormat / Magnum::CompressedPixelFormat value is    *)
(* kept as its two bit fields, [bit31, low]: bit 31 is the                  *)
(* "implementation-specific" flag, low holds bits 0..30.                    *)
(*                                                                         *)
(* CORRADE_ASSERT(cond, message, ret) is modelled as the macro reads: when  *)
(* cond is false the message is raised and the function returns ret.        *)
(* Every query yields [ret, assertion, reads], reads being the set of table *)
(* indices the call has read.                                               *)
(***************************************************************************)
EXTENDS Integers, FiniteSets, Sequences

VARIABLES
    buildDeprecatedGL,       \* MAGNUM_BUILD_DEPRECATED && MAGNUM_TARGET_GL
    FormatMapping,           \* the table built from pixelFormatMapping.hpp
    CompressedFormatMapping, \* the table built from compressedPixelFormatMapping.hpp
    call,                    \* the last query: function, arguments, outcome
    target,                  \* AbstractTexture::_target of every texture
    images,                  \* the images owned by the caller
    invoked,                 \* the last Texture method invoked, as the caller wrote it
    delegated,               \* the calls that invocation made, in order
    returned                 \* the pointer that invocation returned

vars == <<buildDeprecatedGL, FormatMapping, CompressedFormatMapping, call,
          target, images, invoked, delegated, returned>>

pixelVars == <<buildDeprecatedGL, FormatMapping, CompressedFormatMapping, call>>
textureVars == <<target, images, invoked, delegated, returned>>

-----------------------------------------------------------------------------
(* Bounds *)

MaxTableSize == 2
MaxCompressedTableSize == 2

-----------------------------------------------------------------------------
(* Values *)

DeprecatedThreshold == 4096

\* GL_RED, GL_RGBA
GLPixelFormats == {6403, 6408}
\* GL_UNSIGNED_BYTE, GL_FLOAT
GLPixelTypes == {5121, 5126}
\* GL_COMPRESSED_RGBA_S3TC_DXT1_EXT
GLCompressedPixelFormats == {33777}

NoAssertion == "none"

isPixelFormatImplementationSpecific(format) == format.bit31

isCompressedPixelFormatImplementationSpecific(format) == format.bit31

pixelFormatWrap(implementationSpecific) ==
    [bit31 |-> TRUE, low |-> implementationSpecific]

compressedPixelFormatWrap(implementationSpecific) ==
    [bit31 |-> TRUE, low |-> implementationSpecific]

pixelFormatUnwrap(format) == format.low

compressedPixelFormatUnwrap(format) == format.low

\* UnsignedInt(format) of a format whose bit 31 is clear
UnsignedInt(format) == format.low

Generic(value) == [bit31 |-> FALSE, low |-> value]

arraySize(table) == Cardinality(DOMAIN table)

-----------------------------------------------------------------------------
(* The tables *)

\* rows as _c would give them with a type left empty
FormatMappingEntries_HalfEmpty ==
    {[format |-> 0, type |-> 0],
     [format |-> 6403, type |-> 5121],
     [format |-> 6408, type |-> 0]}

\* _c(input, format, type) gives a pair of enumerators: {Red, UnsignedByte},
\* {RGBA, Float}; _s(input) gives {{}, {}}
FormatMappingEntries ==
    {[format |-> 0, type |-> 0],
     [format |-> 6403, type |-> 5121],
     [format |-> 6408, type |-> 5126]}

\* _c(input, format) gives an enumerator, _s(input) gives {}
CompressedFormatMappingEntries == {0} \cup GLCompressedPixelFormats

-----------------------------------------------------------------------------
(* The queries *)

Outcome(ret, assertion, reads) ==
    [ret |-> ret, assertion |-> assertion, reads |-> reads]

\* every row of the table counts as supported
hasPixelFormat_AnyRow(format) ==
    IF isPixelFormatImplementationSpecific(format)
    THEN Outcome(TRUE, NoAssertion, {})
    ELSE IF buildDeprecatedGL /\ UnsignedInt(format) > DeprecatedThreshold
    THEN Outcome(TRUE, NoAssertion, {})
    ELSE IF ~(UnsignedInt(format) < arraySize(FormatMapping))
    THEN Outcome(FALSE, "GL::hasPixelFormat(): invalid format", {})
    ELSE Outcome(TRUE, NoAssertion, {UnsignedInt(format)})

hasPixelFormat(format) ==
    IF isPixelFormatImplementationSpecific(format)
    THEN Outcome(TRUE, NoAssertion, {})
    ELSE IF buildDeprecatedGL /\ UnsignedInt(format) > DeprecatedThreshold
    THEN Outcome(TRUE, NoAssertion, {})
    ELSE IF ~(UnsignedInt(format) < arraySize(FormatMapping))
    THEN Outcome(FALSE, "GL::hasPixelFormat(): invalid format", {})
    ELSE Outcome(FormatMapping[UnsignedInt(format)].format # 0, NoAssertion,
                 {UnsignedInt(format)})

\* the implementation-specific test comes after the table lookup
pixelFormat_TableFirst(format) ==
    IF buildDeprecatedGL /\ UnsignedInt(format) > DeprecatedThreshold
    THEN Outcome(UnsignedInt(format), NoAssertion, {})
    ELSE IF ~(UnsignedInt(format) < arraySize(FormatMapping))
    THEN IF isPixelFormatImplementationSpecific(format)
         THEN Outcome(pixelFormatUnwrap(format), NoAssertion, {})
         ELSE Outcome(0, "GL::pixelFormat(): invalid format", {})
    ELSE LET out == FormatMapping[UnsignedInt(format)].format
         IN  IF out = 0
             THEN Outcome(0, "GL::pixelFormat(): format is not supported on this target",
                          {UnsignedInt(format)})
             ELSE Outcome(out, NoAssertion, {UnsignedInt(format)})

\* the second assertion is missing
pixelFormat_NoSupportCheck(format) ==
    IF isPixelFormatImplementationSpecific(format)
    THEN Outcome(pixelFormatUnwrap(format), NoAssertion, {})
    ELSE IF buildDeprecatedGL /\ UnsignedInt(format) > DeprecatedThreshold
    THEN Outcome(UnsignedInt(format), NoAssertion, {})
    ELSE IF ~(UnsignedInt(format) < arraySize(FormatMapping))
    THEN Outcome(0, "GL::pixelFormat(): invalid format", {})
    ELSE Outcome(FormatMapping[UnsignedInt(format)].format, NoAssertion,
                 {UnsignedInt(format)})

pixelFormat(format) ==
    IF isPixelFormatImplementationSpecific(format)
    THEN Outcome(pixelFormatUnwrap(format), NoAssertion, {})
    ELSE IF buildDeprecatedGL /\ UnsignedInt(format) > DeprecatedThreshold
    THEN Outcome(UnsignedInt(format), NoAssertion, {})
    ELSE IF ~(UnsignedInt(format) < arraySize(FormatMapping))
    THEN Outcome(0, "GL::pixelFormat(): invalid format", {})
    ELSE LET out == FormatMapping[UnsignedInt(format)].format
         IN  IF out = 0
             THEN Outcome(0, "GL::pixelFormat(): format is not supported on this target",
                          {UnsignedInt(format)})
             ELSE Outcome(out, NoAssertion, {UnsignedInt(format)})

\* a non-zero extra wins over the table
pixelType_ExtraFirst(format, extra) ==
    IF extra # 0
    THEN Outcome(extra, NoAssertion, {})
    ELSE IF isPixelFormatImplementationSpecific(format)
            \/ (buildDeprecatedGL /\ UnsignedInt(format) > DeprecatedThreshold)
    THEN Outcome(0, "GL::pixelType(): format is implementation-specific, but no additional type specifier was passed", {})
    ELSE IF ~(UnsignedInt(format) < arraySize(FormatMapping))
    THEN Outcome(0, "GL::pixelType(): invalid format", {})
    ELSE LET out == FormatMapping[UnsignedInt(format)].type
         IN  IF out = 0
             THEN Outcome(0, "GL::pixelType(): format is not supported on this target",
                          {UnsignedInt(format)})
             ELSE Outcome(out, NoAssertion, {UnsignedInt(format)})

\* the assertion on extra is missing
pixelType_NoExtraCheck(format, extra) ==
    IF isPixelFormatImplementationSpecific(format)
       \/ (buildDeprecatedGL /\ UnsignedInt(format) > DeprecatedThreshold)
    THEN Outcome(extra, NoAssertion, {})
    ELSE IF ~(UnsignedInt(format) < arraySize(FormatMapping))
    THEN Outcome(0, "GL::pixelType(): invalid format", {})
    ELSE LET out == FormatMapping[UnsignedInt(format)].type
         IN  IF out = 0
             THEN Outcome(0, "GL::pixelType(): format is not supported on this target",
                          {UnsignedInt(format)})
             ELSE Outcome(out, NoAssertion, {UnsignedInt(format)})

pixelType(format, extra) ==
    IF isPixelFormatImplementationSpecific(format)
       \/ (buildDeprecatedGL /\ UnsignedInt(format) > DeprecatedThreshold)
    THEN IF extra = 0
         THEN Outcome(0, "GL::pixelType(): format is implementation-specific, but no additional type specifier was passed", {})
         ELSE Outcome(extra, NoAssertion, {})
    ELSE IF ~(UnsignedInt(format) < arraySize(FormatMapping))
    THEN Outcome(0, "GL::pixelType(): invalid format", {})
    ELSE LET out == FormatMapping[UnsignedInt(format)].type
         IN  IF out = 0
             THEN Outcome(0, "GL::pixelType(): format is not supported on this target",
                          {UnsignedInt(format)})
             ELSE Outcome(out, NoAssertion, {UnsignedInt(format)})

hasCompressedPixelFormat(format) ==
    IF isCompressedPixelFormatImplementationSpecific(format)
    THEN Outcome(TRUE, NoAssertion, {})
    ELSE IF buildDeprecatedGL /\ UnsignedInt(format) > DeprecatedThreshold
    THEN Outcome(TRUE, NoAssertion, {})
    ELSE IF ~(UnsignedInt(format) < arraySize(CompressedFormatMapping))
    THEN Outcome(FALSE, "GL::hasCompressedPixelFormat(): invalid format", {})
    ELSE Outcome(CompressedFormatMapping[UnsignedInt(format)] # 0, NoAssertion,
                 {UnsignedInt(format)})

\* the bound is tested with <= and the element one past the end is read
compressedPixelFormat_OffByOne(format) ==
    IF isCompressedPixelFormatImplementationSpecific(format)
    THEN Outcome(compressedPixelFormatUnwrap(format), NoAssertion, {})
    ELSE IF buildDeprecatedGL /\ UnsignedInt(format) > DeprecatedThreshold
    THEN Outcome(UnsignedInt(format), NoAssertion, {})
    ELSE IF ~(UnsignedInt(format) <= arraySize(CompressedFormatMapping))
    THEN Outcome(0, "GL::compressedPixelFormat(): invalid format", {})
    ELSE Outcome(IF UnsignedInt(format) \in DOMAIN CompressedFormatMapping
                 THEN CompressedFormatMapping[UnsignedInt(format)]
                 ELSE 0,
                 NoAssertion, {UnsignedInt(format)})

compressedPixelFormat(format) ==
    IF isCompressedPixelFormatImplementationSpecific(format)
    THEN Outcome(compressedPixelFormatUnwrap(format), NoAssertion, {})
    ELSE IF buildDeprecatedGL /\ UnsignedInt(format) > DeprecatedThreshold
    THEN Outcome(UnsignedInt(format), NoAssertion, {})
    ELSE IF ~(UnsignedInt(format) < arraySize(CompressedFormatMapping))
    THEN Outcome(0, "GL::compressedPixelFormat(): invalid format", {})
    ELSE Outcome(CompressedFormatMapping[UnsignedInt(format)], NoAssertion,
                 {UnsignedInt(format)})

-----------------------------------------------------------------------------
(* Inputs *)

GenericValues(bound) ==
    (0 .. bound + 1) \cup {DeprecatedThreshold, DeprecatedThreshold + 1, 6403}

PixelFormats ==
    {Generic(v) : v \in GenericValues(MaxTableSize)}
        \cup {pixelFormatWrap(v) : v \in {0, 1} \cup GLPixelFormats}

CompressedPixelFormats ==
    {Generic(v) : v \in GenericValues(MaxCompressedTableSize)}
        \cup {compressedPixelFormatWrap(v) : v \in {0, 1} \cup GLCompressedPixelFormats}

Extras == {0} \cup GLPixelTypes

Tables(bound, entries) ==
    UNION {[0 .. n - 1 -> entries] : n \in 1 .. bound}

NoCall ==
    [fn |-> "none", format |-> Generic(0), extra |-> 0,
     ret |-> 0, assertion |-> NoAssertion, reads |-> {}]

Called(fn, format, extra, outcome) ==
    [fn |-> fn, format |-> format, extra |-> extra,
     ret |-> outcome.ret, assertion |-> outcome.assertion, reads |-> outcome.reads]

-----------------------------------------------------------------------------
(* Texture<dimensions> *)

Textures == {"texture1", "texture2"}
Targets == {"Texture2D", "Rectangle"}
Images == {"imageA", "imageB"}
MipLevels == {0, 1}
InternalFormats == {"RGBA8", "Red"}
Offsets == {0, 1}
Filters == {"NearestNeighbor", "LinearInterpolation"}
Mipmaps == {"BaseLevel", "NearestLevel", "LinearInterpolation"}
Wrappings == {"Repeat", "ClampToEdge"}

Omitted == "omitted"

\* Mipmap mipmap = Mipmap::BaseLevel
MipmapArgument(mipmap) == IF mipmap = Omitted THEN "BaseLevel" ELSE mipmap

Delegate(to, args) == [to |-> to, args |-> args]

Invoke(method, this, args) == [method |-> method, this |-> this, args |-> args]

NotInvoked == Invoke("none", "none", <<>>)

setWrapping(this, wrapping) ==
    /\ invoked' = Invoke("setWrapping", this, <<wrapping>>)
    /\ delegated' = <<Delegate("DataHelper::setWrapping", <<this, wrapping>>)>>
    /\ returned' = this
    /\ UNCHANGED <<target, images>>

setData(this, mipLevel, internalFormat, image) ==
    /\ invoked' = Invoke("setData", this, <<mipLevel, internalFormat, image>>)
    /\ delegated' = <<Delegate("DataHelper::set",
                               <<this, target[this], mipLevel, internalFormat, image>>)>>
    /\ returned' = this
    /\ UNCHANGED <<target, images>>

\* mipLevel and offset change places
setSubData_Swapped(this, mipLevel, offset, image) ==
    /\ invoked' = Invoke("setSubData", this, <<mipLevel, offset, image>>)
    /\ delegated' = <<Delegate("DataHelper::setSub",
                               <<this, target[this], offset, mipLevel, image>>)>>
    /\ returned' = this
    /\ UNCHANGED <<target, images>>

setSubData(this, mipLevel, offset, image) ==
    /\ invoked' = Invoke("setSubData", this, <<mipLevel, offset, image>>)
    /\ delegated' = <<Delegate("DataHelper::setSub",
                               <<this, target[this], mipLevel, offset, image>>)>>
    /\ returned' = this
    /\ UNCHANGED <<target, images>>

setMinificationFilter(this, filter, mipmap) ==
    /\ invoked' = Invoke("setMinificationFilter", this, <<filter, mipmap>>)
    /\ delegated' = <<Delegate("AbstractTexture::setMinificationFilter",
                               <<this, filter, MipmapArgument(mipmap)>>)>>
    /\ returned' = this
    /\ UNCHANGED <<target, images>>

setMagnificationFilter(this, filter) ==
    /\ invoked' = Invoke("setMagnificationFilter", this, <<filter>>)
    /\ delegated' = <<Delegate("AbstractTexture::setMagnificationFilter",
                               <<this, filter>>)>>
    /\ returned' = this
    /\ UNCHANGED <<target, images>>

generateMipmap(this) ==
    /\ invoked' = Invoke("generateMipmap", this, <<>>)
    /\ delegated' = <<Delegate("AbstractTexture::generateMipmap", <<this>>)>>
    /\ returned' = this
    /\ UNCHANGED <<target, images>>

-----------------------------------------------------------------------------
(* Pixel-format queries as steps *)

CallHasPixelFormat ==
    /\ \E format \in PixelFormats :
           call' = Called("hasPixelFormat", format, 0, hasPixelFormat(format))
    /\ UNCHANGED <<buildDeprecatedGL, FormatMapping, CompressedFormatMapping>>
    /\ UNCHANGED textureVars

CallPixelFormat ==
    /\ \E format \in PixelFormats :
           call' = Called("pixelFormat", format, 0, pixelFormat(format))
    /\ UNCHANGED <<buildDeprecatedGL, FormatMapping, CompressedFormatMapping>>
    /\ UNCHANGED textureVars

CallPixelType ==
    /\ \E format \in PixelFormats, extra \in Extras :
           call' = Called("pixelType", format, extra, pixelType(format, extra))
    /\ UNCHANGED <<buildDeprecatedGL, FormatMapping, CompressedFormatMapping>>
    /\ UNCHANGED textureVars

CallHasCompressedPixelFormat ==
    /\ \E format \in CompressedPixelFormats :
           call' = Called("hasCompressedPixelFormat", format, 0,
                          hasCompressedPixelFormat(format))
    /\ UNCHANGED <<buildDeprecatedGL, FormatMapping, CompressedFormatMapping>>
    /\ UNCHANGED textureVars

CallCompressedPixelFormat ==
    /\ \E format \in CompressedPixelFormats :
           call' = Called("compressedPixelFormat", format, 0,
                          compressedPixelFormat(format))
    /\ UNCHANGED <<buildDeprecatedGL, FormatMapping, CompressedFormatMapping>>
    /\ UNCHANGED textureVars

-----------------------------------------------------------------------------
(* Texture methods as steps *)

CallSetWrapping ==
    /\ \E this \in Textures, wrapping \in Wrappings : setWrapping(this, wrapping)
    /\ UNCHANGED pixelVars

CallSetData ==
    /\ \E this \in Textures, mipLevel \in MipLevels,
          internalFormat \in InternalFormats, image \in Images :
           setData(this, mipLevel, internalFormat, image)
    /\ UNCHANGED pixelVars

CallSetSubData ==
    /\ \E this \in Textures, mipLevel \in MipLevels,
          offset \in Offsets, image \in Images :
           setSubData(this, mipLevel, offset, image)
    /\ UNCHANGED pixelVars

CallSetMinificationFilter ==
    /\ \E this \in Textures, filter \in Filters, mipmap \in Mipmaps \cup {Omitted} :
           setMinificationFilter(this, filter, mipmap)
    /\ UNCHANGED pixelVars

CallSetMagnificationFilter ==
    /\ \E this \in Textures, filter \in Filters : setMagnificationFilter(this, filter)
    /\ UNCHANGED pixelVars

CallGenerateMipmap ==
    /\ \E this \in Textures : generateMipmap(this)
    /\ UNCHANGED pixelVars

-----------------------------------------------------------------------------
(* Specifications *)

\* Every build of the translation unit, no texture in use
Init ==
    /\ buildDeprecatedGL \in BOOLEAN
    /\ FormatMapping \in Tables(MaxTableSize, FormatMappingEntries)
    /\ CompressedFormatMapping \in Tables(MaxCompressedTableSize,
                                          CompressedFormatMappingEntries)
    /\ call = NoCall
    /\ target = [t \in Textures |-> "Texture2D"]
    /\ images = [i \in Images |-> [alive |-> TRUE, data |-> 0]]
    /\ invoked = NotInvoked
    /\ delegated = <<>>
    /\ returned = "none"

Next ==
    \/ CallHasPixelFormat
    \/ CallPixelFormat
    \/ CallPixelType
    \/ CallHasCompressedPixelFormat
    \/ CallCompressedPixelFormat

Spec == Init /\ [][Next]_vars

\* Every construction of the textures and every image, one build
InitTexture ==
    /\ buildDeprecatedGL = FALSE
    /\ FormatMapping = [i \in 0 .. 0 |-> [format |-> 6408, type |-> 5121]]
    /\ CompressedFormatMapping = [i \in 0 .. 0 |-> 33777]
    /\ call = NoCall
    /\ target \in [Textures -> Targets]
    /\ images \in [Images -> [alive : {TRUE}, data : 0 .. 1]]
    /\ invoked = NotInvoked
    /\ delegated = <<>>
    /\ returned = "none"

NextTexture ==
    \/ CallSetWrapping
    \/ CallSetData
    \/ CallSetSubData
    \/ CallSetMinificationFilter
    \/ CallSetMagnificationFilter
    \/ CallGenerateMipmap

SpecTexture == InitTexture /\ [][NextTexture]_vars

-----------------------------------------------------------------------------
(* Properties of the pixel-format queries *)

GenericInRange(format, table) ==
    ~format.bit31 /\ format.low < arraySize(table)

\* C1: for a generic format that is a valid index of FormatMapping with a
\* non-zero entry, pixelFormat returns the entry's format and pixelType returns
\* the entry's type, whatever extra is, and neither raises an assertion.
C1_GenericLookup ==
    (/\ call.fn \in {"pixelFormat", "pixelType"}
     /\ GenericInRange(call.format, FormatMapping)
     /\ FormatMapping[call.format.low] # [format |-> 0, type |-> 0])
    => /\ call.assertion = NoAssertion
       /\ call.fn = "pixelFormat" => call.ret = FormatMapping[call.format.low].format
       /\ call.fn = "pixelType" => call.ret = FormatMapping[call.format.low].type

\* pixelType has answered from the table although a different extra was passed
C1_Witness ==
    /\ call.fn = "pixelType"
    /\ GenericInRange(call.format, FormatMapping)
    /\ call.extra = 5121
    /\ call.ret = 5126

\* C2: hasPixelFormat is true for every implementation-specific format; for a
\* generic format that is a valid index it is true exactly when the entry's
\* format is non-zero, which is exactly when pixelFormat raises no assertion.
C2_HasPixelFormat ==
    call.fn = "hasPixelFormat"
    => /\ call.format.bit31 => call.ret = TRUE
       /\ GenericInRange(call.format, FormatMapping)
          => /\ call.ret = (FormatMapping[call.format.low].format # 0)
             /\ call.ret = (pixelFormat(call.format).assertion = NoAssertion)

\* hasPixelFormat has answered false for a placeholder row
C2_Witness ==
    /\ call.fn = "hasPixelFormat"
    /\ GenericInRange(call.format, FormatMapping)
    /\ call.ret = FALSE
    /\ call.assertion = NoAssertion

C4_ImplementationSpecificType ==
    (call.fn = "pixelType" /\ call.format.bit31)
    => /\ call.reads = {}
       /\ call.extra # 0 => (call.ret = call.extra /\ call.assertion = NoAssertion)
       /\ call.extra = 0
          => /\ call.ret = 0
             /\ call.assertion = "GL::pixelType(): format is implementation-specific, but no additional type specifier was passed"

\* pixelType of a wrapped format was called without extra
C4_Witness ==
    /\ call.fn = "pixelType"
    /\ call.format.bit31
    /\ call.extra = 0
    /\ call.assertion # NoAssertion

InvalidFormat(fn) ==
    CASE fn = "hasPixelFormat" -> "GL::hasPixelFormat(): invalid format"
      [] fn = "pixelFormat" -> "GL::pixelFormat(): invalid format"
      [] fn = "pixelType" -> "GL::pixelType(): invalid format"
      [] fn = "hasCompressedPixelFormat" -> "GL::hasCompressedPixelFormat(): invalid format"
      [] fn = "compressedPixelFormat" -> "GL::compressedPixelFormat(): invalid format"

TableOf(fn) ==
    IF fn \in {"hasPixelFormat", "pixelFormat", "pixelType"}
    THEN FormatMapping
    ELSE CompressedFormatMapping

DefaultOf(fn) ==
    IF fn \in {"hasPixelFormat", "hasCompressedPixelFormat"} THEN FALSE ELSE 0

RaisedInvalidFormat ==
    /\ call.assertion = InvalidFormat(call.fn)
    /\ call.ret = DefaultOf(call.fn)

ReadsInBounds == call.reads \subseteq DOMAIN TableOf(call.fn)

\* C5 as stated: every generic format not smaller than the size of the table
\* makes each of the five queries raise "invalid format" and return the default
\* value, and no table is indexed outside its bounds.
C5_AsStated ==
    call.fn # "none"
    => /\ ReadsInBounds
       /\ (~call.format.bit31 /\ call.format.low >= arraySize(TableOf(call.fn)))
          => RaisedInvalidFormat

\* C5: every generic format not smaller than the size of the table and, in a
\* build with MAGNUM_BUILD_DEPRECATED and MAGNUM_TARGET_GL, not greater than
\* 0x1000, makes each of the five queries raise "invalid format" and return the
\* default value; no table is indexed outside its bounds in any call.
C5_InvalidFormat ==
    call.fn # "none"
    => /\ ReadsInBounds
       /\ (/\ ~call.format.bit31
           /\ call.format.low >= arraySize(TableOf(call.fn))
           /\ ~(buildDeprecatedGL /\ call.format.low > DeprecatedThreshold))
          => RaisedInvalidFormat

\* in a deprecated GL build, 0x1000 itself is still rejected as an index
C5_Witness ==
    /\ buildDeprecatedGL
    /\ call.fn = "compressedPixelFormat"
    /\ call.format = Generic(DeprecatedThreshold)
    /\ call.assertion = "GL::compressedPixelFormat(): invalid format"

\* C6: for a generic format that is a valid index and whose entry is the zero
\* placeholder, pixelFormat and pixelType each raise "is not supported on this
\* target" and return zero, whatever extra is.
C6_NotSupported ==
    (/\ call.fn \in {"pixelFormat", "pixelType"}
     /\ GenericInRange(call.format, FormatMapping)
     /\ FormatMapping[call.format.low] = [format |-> 0, type |-> 0])
    => /\ call.ret = 0
       /\ call.fn = "pixelFormat"
          => call.assertion = "GL::pixelFormat(): format is not supported on this target"
       /\ call.fn = "pixelType"
          => call.assertion = "GL::pixelType(): format is not supported on this target"

\* pixelFormat has met a placeholder row
C6_Witness ==
    /\ call.fn = "pixelFormat"
    /\ GenericInRange(call.format, FormatMapping)
    /\ FormatMapping[call.format.low].format = 0
    /\ call.assertion # NoAssertion

-----------------------------------------------------------------------------
(* Properties of the Texture methods *)

\* the one call a method has to make for the invocation the caller wrote
Forwarded(invocation, targets) ==
    CASE invocation.method = "setData"
           -> Delegate("DataHelper::set",
                       <<invocation.this, targets[invocation.this]>> \o invocation.args)
      [] invocation.method = "setSubData"
           -> Delegate("DataHelper::setSub",
                       <<invocation.this, targets[invocation.this]>> \o invocation.args)
      [] invocation.method = "setMinificationFilter"
           -> Delegate("AbstractTexture::setMinificationFilter",
                       <<invocation.this, invocation.args[1],
                         IF invocation.args[2] = Omitted
                         THEN "BaseLevel"
                         ELSE invocation.args[2]>>)

\* C7: setData, setSubData and setMinificationFilter each make exactly one
\* delegated call: setData forwards (this, target, mipLevel, internalFormat,
\* image), setSubData forwards (this, target, mipLevel, offset, image),
\* setMinificationFilter without a mipmap argument forwards Mipmap::BaseLevel;
\* the step changes neither the images nor the texture's target and returns
\* the texture itself.
C7_Forwarding ==
    [][invoked'.method \in {"setData", "setSubData", "setMinificationFilter"}
       => /\ delegated' = <<Forwarded(invoked', target)>>
          /\ images' = images
          /\ target' = target
          /\ returned' = invoked'.this]_vars

\* setSubData has been called with a mip level and an offset that differ, on a
\* texture whose target is not the default one
C7_Witness ==
    /\ invoked.method = "setSubData"
    /\ invoked.args[1] # invoked.args[2]
    /\ target[invoked.this] = "Rectangle"
    /\ Len(delegated) = 1

====
